---------------------------- MODULE Spec2Model ----------------------------
(***************************************************************************)
(* A model of src/bot.py: the FP ledger (user_fp), the warning history     *)
(* (user_warnings) with its start-up schema migration, the FP role         *)
(* synchroniser and the permission gate with its attempt counter.          *)
(*                                                                         *)
(* The bot runs its command handlers on one asyncio event loop: the code   *)
(* between two awaits that really suspend is one atomic step here, and a   *)
(* handler that awaits an external call (a role removal, a role addition,  *)
(* a reply) is a task whose position is kept in `tasks`.                   *)
(*                                                                         *)
(* Texts whose form matters (role names) are sequences of one-character    *)
(* strings; sqlite tables are records (exists, cols, rows, seq).           *)
(***************************************************************************)
EXTENDS Integers, Sequences, FiniteSets, TLC

(***************************************************************************)
(* Bounds of the model.                                                    *)
(***************************************************************************)
NUsers == 3            \* user ids are 1..NUsers
MaxTime == 125         \* the clock stops advancing past StartTime + MaxTime
MaxCount == 4          \* cap of an attempt counter (the code has none)
MaxScore == 2          \* cap of |score| for the delta commands
MaxRows == 2           \* cap of the rows of user_warnings
MaxSeq == 3            \* cap of the AUTOINCREMENT sequence
MaxDay == 2            \* the calendar days are 1..MaxDay
MaxTasks == 2          \* handlers suspended at an await at the same time
MaxLog == 4            \* cap of the history of the gate's decisions
MaxLegacyCount == 2    \* cap of a count in a legacy (user, count) row
MaxLegacyRows == 2     \* cap of the rows of a legacy table
MaxOps == 2            \* cap of the history of score commands of a user
IntegerBits == 5       \* bits of a stored INTEGER (SQLite: 64)
NTopUsers == 6         \* the user ids of the rows that fptop ranks
MaxTopScore == 1       \* the scores of these rows are 0..MaxTopScore

(***************************************************************************)
(* Program constants.                                                      *)
(***************************************************************************)
MAX_ATTEMPTS == 3      \* _MAX_ATTEMPTS
WINDOW_SECONDS == 60   \* _WINDOW_SECONDS
NullDate == 0          \* SQL NULL in a date column (days start at 1)
NullReason == "<NULL>" \* SQL NULL in a reason column

Users == 1 .. NUsers
Bots == {u \in Users : u = 3}          \* member.bot
TaskIds == 1 .. MaxTasks
Abs(n) == IF n < 0 THEN -n ELSE n

(***************************************************************************)
(* Texts: role names, as Python builds and matches them.                   *)
(***************************************************************************)
DigitChars == <<"0", "1", "2", "3", "4", "5", "6", "7", "8", "9">>
DigitSet == {DigitChars[i] : i \in 1 .. 10}
SpaceSet == {" "}

RECURSIVE NatStr(_)
\* str(n) of a non-negative int: its decimal digits.
NatStr(n) ==
    IF n < 10 THEN <<DigitChars[n + 1]>>
    ELSE NatStr(n \div 10) \o <<DigitChars[(n % 10) + 1]>>

\* str(n) of an int, as an f-string formats it: a minus sign for n < 0.
IntStr(n) == IF n < 0 THEN <<"-">> \o NatStr(-n) ELSE NatStr(n)

\* role_name = f"{new_fp} FP"
RoleNameBug(new_fp) == NatStr(Abs(new_fp)) \o <<"F", "P">>
RoleName(new_fp) == IntStr(new_fp) \o <<" ", "F", "P">>

RECURSIVE SkipWhile(_, _, _)
\* The first position >= i of s whose character is not in set (Len(s)+1 if none).
SkipWhile(s, i, set) ==
    IF i <= Len(s) /\ s[i] \in set THEN SkipWhile(s, i + 1, set) ELSE i

\* fp_role_pattern = re.compile(r"^\d+\s*FP$", re.IGNORECASE), matched against
\* the whole name: digits (one or more), white space (any), "FP" in any case.
MatchesFpPatternBug(name) ==
    LET d == SkipWhile(name, 1, DigitSet)
    IN  /\ d > 1
        /\ Len(name) = d + 1
        /\ name[d] \in {"F", "f"}
        /\ name[d + 1] \in {"P", "p"}
MatchesFpPattern(name) ==
    LET d == SkipWhile(name, 1, DigitSet)
        w == SkipWhile(name, d, SpaceSet)
    IN  /\ d > 1
        /\ Len(name) = w + 1
        /\ name[w] \in {"F", "f"}
        /\ name[w + 1] \in {"P", "p"}

\* is_fp_role(role): a role is modelled by its name.
is_fp_role(role) == MatchesFpPattern(role)


(***************************************************************************)
(* State.                                                                  *)
(***************************************************************************)
VARIABLES
    now,              \* time.time(), in seconds
    today,            \* datetime.utcnow().strftime("%Y-%m-%d"), as a day number
    unauth_attempts,  \* _unauth_attempts: user id -> <<count, last_ts>>
    ctx,              \* the invocation dispatched last (command, author, ...)
    reply,            \* the message sent last (ctx.reply, ctx.send, channel.send)
    user_fp,          \* table user_fp: user id -> fp, for the ids that have a row
    user_warnings,    \* table user_warnings as committed to fp.sqlite
    uw_new,           \* table _uw_new as committed to fp.sqlite
    boot,             \* the start-up sequence: its position and its connection
    members,          \* ctx.guild.members: the ids of the guild's members
    member_roles,     \* member.roles: user id -> the set of roles held
    guild_roles,      \* member.guild.roles
    tasks,            \* handlers suspended at an await: task id -> frame
    gate_log,         \* history: the gate's decisions, oldest first
    legacy,           \* history: user_warnings as the first start-up found it
    pending,          \* history: per user, the fp at the start plus the
                      \* deltas of the adjustments invoked since
    roles_before,     \* history: per user, member.roles as the user's last
                      \* sync found them
    applied           \* history: per user, the score commands run for the
                      \* user since the user last had no row

vars == <<now, today, unauth_attempts, ctx, reply, user_fp, user_warnings,
          uw_new, boot, members, member_roles, guild_roles, tasks, gate_log,
          legacy, pending, roles_before, applied>>

clockVars == <<now, today>>
gateVars == <<unauth_attempts>>
dbVars == <<user_fp, user_warnings, uw_new>>
guildVars == <<members, member_roles, guild_roles>>
histVars == <<gate_log, legacy, pending, roles_before, applied>>

(***************************************************************************)
(* sqlite tables.                                                          *)
(***************************************************************************)
NoTable == [exists |-> FALSE, cols |-> {}, rows |-> <<>>, seq |-> 0]
CurrentCols == {"id", "user_id", "reason", "date"}
MinimalCols == {"id", "user_id"}

\* CREATE TABLE IF NOT EXISTS name(cols): no effect on a table that exists.
CreateIfNotExists(table, cols) ==
    IF table.exists THEN table
    ELSE [exists |-> TRUE, cols |-> cols, rows |-> <<>>, seq |-> 0]

\* The largest id of the rows (0 if none, or if the table has no id column).
RECURSIVE MaxId(_)
MaxId(rows) ==
    IF rows = <<>> THEN 0
    ELSE LET m == MaxId(Tail(rows))
             i == IF "id" \in DOMAIN Head(rows) THEN Head(rows).id ELSE 0
         IN  IF i > m THEN i ELSE m

\* INSERT INTO table (user_id, reason, date) VALUES (...): the table has an
\* AUTOINCREMENT id, so the row gets an id above every id ever handed out.
InsertRowReuseId(table, user_id, reason, date) ==
    LET id == MaxId(table.rows) + 1
    IN  [table EXCEPT !.rows = Append(@, [id |-> id, user_id |-> user_id,
                                          reason |-> reason, date |-> date]),
                      !.seq = id]
InsertRow(table, user_id, reason, date) ==
    LET top == IF MaxId(table.rows) > table.seq THEN MaxId(table.rows)
               ELSE table.seq
        id == top + 1
    IN  [table EXCEPT !.rows = Append(@, [id |-> id, user_id |-> user_id,
                                          reason |-> reason, date |-> date]),
                      !.seq = id]

\* The rows of a sequence that satisfy Keep, in their order.
SelectRows(rows, Keep(_)) ==
    LET RECURSIVE Sel(_)
        Sel(i) == IF i > Len(rows) THEN <<>>
                  ELSE IF Keep(rows[i]) THEN <<rows[i]>> \o Sel(i + 1)
                  ELSE Sel(i + 1)
    IN  Sel(1)

\* An INSERT with the columns (user_id, reason, date) fails on a table
\* without them ("table user_warnings has no column named reason").
CanInsertWarning(table) ==
    table.exists /\ {"user_id", "reason", "date"} \subseteq table.cols
\* SELECT reason, date ... ORDER BY id fails likewise ("no such column").
CanSelectWarning(table) ==
    table.exists /\ {"id", "user_id", "reason", "date"} \subseteq table.cols

(***************************************************************************)
(* FP functions.                                                           *)
(***************************************************************************)
\* A Python int is unbounded; an INTEGER that sqlite3 binds to a statement
\* is signed and IntegerBits wide, and binding a larger one raises
\* OverflowError before the statement runs.
SQLITE_MIN == 0 - 2 ^ (IntegerBits - 1)
SQLITE_MAX == 2 ^ (IntegerBits - 1) - 1
CanBind(value) == value \in SQLITE_MIN .. SQLITE_MAX

\* get_fp: the stored fp, 0 when the user has no row.
get_fp(table, user_id) ==
    IF user_id \in DOMAIN table THEN table[user_id] ELSE 0

\* set_fp: INSERT ... ON CONFLICT(user_id) DO UPDATE SET fp=excluded.fp
set_fp_ignore(table, user_id, value) ==
    [u \in DOMAIN table \cup {user_id} |->
        IF u \in DOMAIN table THEN table[u] ELSE value]
set_fp(table, user_id, value) ==
    [u \in DOMAIN table \cup {user_id} |->
        IF u = user_id THEN value ELSE table[u]]

\* DELETE FROM user_fp WHERE user_id = ?
delete_fp(table, user_id) ==
    [u \in DOMAIN table \ {user_id} |-> table[u]]

(***************************************************************************)
(* The warning system's storage functions.  Each returns the table after   *)
(* the call; `ok` is FALSE when sqlite raises OperationalError (the        *)
(* connection is then dropped without a commit).                           *)
(***************************************************************************)
\* add_warning(user_id, reason), with the date of today.
add_warning(table, user_id, reason, date) ==
    LET t == CreateIfNotExists(table, CurrentCols)
    IN  IF CanInsertWarning(t)
        THEN [ok |-> TRUE, table |-> InsertRow(t, user_id, reason, date)]
        ELSE [ok |-> FALSE, table |-> t]

\* get_all_warnings(user_id): the (reason, date) pairs, ORDER BY id ASC.
WarningRowsOf(table, user_id) ==
    SelectRows(table.rows, LAMBDA r : r.user_id = user_id)
RECURSIVE SortById(_)
SortById(rows) ==
    IF rows = <<>> THEN <<>>
    ELSE LET m == MaxId(rows)
         IN  SortById(SelectRows(rows, LAMBDA r : r.id # m))
                 \o SelectRows(rows, LAMBDA r : r.id = m)
get_all_warnings(table, user_id) ==
    LET rs == SortById(WarningRowsOf(table, user_id))
    IN  [i \in 1 .. Len(rs) |-> <<rs[i].reason, rs[i].date>>]

\* clear_warnings(user_id): the count, and the table without the user's rows.
clear_warnings_count_all(table, user_id) ==
    [count |-> Len(table.rows),
     table |-> [table EXCEPT !.rows =
                    SelectRows(@, LAMBDA r : r.user_id # user_id)]]
clear_warnings(table, user_id) ==
    [count |-> Len(WarningRowsOf(table, user_id)),
     table |-> [table EXCEPT !.rows =
                    SelectRows(@, LAMBDA r : r.user_id # user_id)]]

\* remove_last_warning(user_id): SELECT id ... ORDER BY id DESC LIMIT 1, then
\* DELETE ... WHERE id=?
LastWarningIdFirst(table, user_id) ==
    LET rs == WarningRowsOf(table, user_id)
    IN  IF rs = <<>> THEN 0 ELSE rs[1].id
LastWarningId(table, user_id) ==
    LET rs == WarningRowsOf(table, user_id)
    IN  IF rs = <<>> THEN 0 ELSE MaxId(rs)
remove_last_warning(table, user_id) ==
    LET last_id == LastWarningId(table, user_id)
    IN  IF WarningRowsOf(table, user_id) = <<>>
        THEN [ok |-> FALSE, table |-> table]
        ELSE [ok |-> TRUE,
              table |-> [table EXCEPT !.rows =
                             SelectRows(@, LAMBDA r : r.id # last_id)]]

(***************************************************************************)
(* The clock.                                                              *)
(***************************************************************************)
StartTime == 100
\* The clock advances by a whole window, or by a second more than one.
TickSteps == {WINDOW_SECONDS, WINDOW_SECONDS + 1}

Tick(d) ==
    /\ now + d <= StartTime + MaxTime
    /\ now' = now + d
    /\ UNCHANGED <<today, unauth_attempts, ctx, reply, dbVars, boot,
                   guildVars, tasks>>

NextDay ==
    /\ today < MaxDay
    /\ today' = today + 1
    /\ UNCHANGED <<now, unauth_attempts, ctx, reply, dbVars, boot,
                   guildVars, tasks>>

(***************************************************************************)
(* manage_roles_only: the check in front of the gated commands.            *)
(***************************************************************************)
MSG_DEFAULT == "stop trying to use commands that you can't use"
MSG_ESCALATED == "stop spamming the commands; this is your final warning"

\* The count after an attempt without permission.
AttemptCountNoReset(entry, t) == entry[1] + 1
AttemptCountInclusive(entry, t) ==
    (IF t - entry[2] >= WINDOW_SECONDS THEN 0 ELSE entry[1]) + 1
AttemptCount(entry, t) ==
    (IF t - entry[2] > WINDOW_SECONDS THEN 0 ELSE entry[1]) + 1

\* The entry an invocation with permission leaves in _unauth_attempts.
AllowedEntryKeep(entry) == entry
AllowedEntry(entry) == <<0, 0>>

\* predicate(ctx): whether the command may run, the author's entry in
\* _unauth_attempts afterwards, and the message replied ("" for none).
predicateAllowAll(author, has_perm, attempts, t) ==
    [allow |-> TRUE, entry |-> AllowedEntry(attempts[author]), msg |-> ""]
predicate(author, has_perm, attempts, t) ==
    IF has_perm
    THEN [allow |-> TRUE, entry |-> AllowedEntry(attempts[author]), msg |-> ""]
    ELSE LET count == AttemptCount(attempts[author], t)
         IN  [allow |-> FALSE,
              entry |-> <<count, t>>,
              msg |-> IF count >= MAX_ATTEMPTS THEN MSG_ESCALATED
                      ELSE MSG_DEFAULT]

\* The gated commands.
GatedCommands ==
    {"fp", "fpset", "fprolesync", "fpall", "warn", "warnclear", "warnsub"}

\* The context of an invocation; msg_id tells an invocation from the one
\* before it (message ids, kept modulo 2).
Context(command, author, has_perm, member) ==
    [command |-> command, author |-> author, has_perm |-> has_perm,
     member |-> member, msg_id |-> 1 - ctx.msg_id]

NoReply == [text |-> "", user |-> 0, n |-> 0, note |-> FALSE]
GateReply(author, msg) == [text |-> msg, user |-> author, n |-> 0, note |-> FALSE]

\* A gated command invoked by a caller the check turns away: the counter is
\* updated, the warning is replied and the command body does not run.
Denied(command, author, has_perm, member) ==
    LET g == predicate(author, has_perm, unauth_attempts, now)
    IN  /\ boot.pc = "ready"
        /\ author \in members \ Bots
        /\ ~g.allow
        /\ g.entry[1] <= MaxCount
        /\ unauth_attempts' = [unauth_attempts EXCEPT ![author] = g.entry]
        /\ ctx' = Context(command, author, has_perm, member)
        /\ reply' = GateReply(author, g.msg)
        /\ UNCHANGED <<clockVars, dbVars, boot, guildVars, tasks>>

\* What the check does to the state when it lets the command body run.
Allowed(command, author, has_perm, member) ==
    LET g == predicate(author, has_perm, unauth_attempts, now)
    IN  /\ boot.pc = "ready"
        /\ author \in members \ Bots
        /\ member \in members \cup {0}
        /\ g.allow
        /\ unauth_attempts' = [unauth_attempts EXCEPT ![author] = g.entry]
        /\ ctx' = Context(command, author, has_perm, member)

Permitted(author, has_perm) ==
    predicate(author, has_perm, unauth_attempts, now).allow

(***************************************************************************)
(* Roles.  A role is its name; RolePositions is the guild's hierarchy,     *)
(* which orders member.roles.                                              *)
(***************************************************************************)
NoRole == <<>>
ROLE_MODERATOR == <<"M", "o", "d">>
ROLE_7FP == <<"7", "F", "P">>               \* "7FP": no space
ROLE_2fp == <<"2", " ", "f", "p">>          \* "2 fp": lower case
RolePositions ==
    <<ROLE_MODERATOR, ROLE_7FP, ROLE_2fp, RoleName(-1), RoleName(0),
      RoleName(1), RoleName(2), RoleName(3), RoleName(12)>>
AllRoles == {RolePositions[i] : i \in 1 .. Len(RolePositions)}

\* roles_to_remove = [r for r in member.roles if is_fp_role(r)]
roles_to_remove_all(held) ==
    SelectRows(RolePositions, LAMBDA r : r \in held)
roles_to_remove(held) ==
    SelectRows(RolePositions, LAMBDA r : r \in held /\ is_fp_role(r))

\* discord.utils.get(member.guild.roles, name=role_name)
TargetRoleAnyCase(groles, new_fp) ==
    IF \E r \in groles : is_fp_role(r) THEN CHOOSE r \in groles : is_fp_role(r)
    ELSE NoRole
TargetRole(groles, new_fp) ==
    IF RoleName(new_fp) \in groles THEN RoleName(new_fp) ELSE NoRole

(***************************************************************************)
(* sync_member_fp_role, cut at its awaits.  A sync is at "remove" (awaiting *)
(* member.remove_roles), at "add" (awaiting member.add_roles) or has        *)
(* returned "true" or "false".                                              *)
(***************************************************************************)
\* From the look-up of the target role on, once the removals are over.
SyncLookup(groles, new_fp) ==
    LET target == TargetRole(groles, new_fp)
    IN  IF target # NoRole
        THEN [at |-> "add", to_remove |-> <<>>, target |-> target]
        ELSE [at |-> "false", to_remove |-> <<>>, target |-> NoRole]

\* From the call of sync_member_fp_role to its first await or its return.
SyncBeginNoRemove(held, groles, new_fp) == SyncLookup(groles, new_fp)
SyncBegin(held, groles, new_fp) ==
    LET rem == roles_to_remove(held)
    IN  IF rem # <<>>
        THEN [at |-> "remove", to_remove |-> rem, target |-> NoRole]
        ELSE SyncLookup(groles, new_fp)

(***************************************************************************)
(* Tasks: a frame is a handler suspended inside sync_member_fp_role.       *)
(***************************************************************************)
Idle == [kind |-> "idle"]
NoCounts == [updated |-> 0, skipped_bots |-> 0, failed_syncs |-> 0]

Frame(kind, member, new_fp, sync, queue, delta, counts) ==
    [kind |-> kind, at |-> sync.at, member |-> member, new_fp |-> new_fp,
     to_remove |-> sync.to_remove, target |-> sync.target,
     queue |-> queue, delta |-> delta, counts |-> counts]

IdleTasks == {t \in TaskIds : tasks[t] = Idle}
\* The slot a newly suspended handler takes.
FreeTask == CHOOSE t \in IdleTasks : \A o \in IdleTasks : t <= o

\* The reply of fp, fpset and fprolesync: the member, the value and whether
\* the "role not found" note is added.
CommandReply(kind, member, value, existed) ==
    [text |-> kind, user |-> member, n |-> value, note |-> ~existed]

\* The summary of fpall: the members updated and whether the note about
\* members without a matching role is added.
FpallReply(counts) ==
    [text |-> "fpall", user |-> 0, n |-> counts.updated,
     note |-> counts.failed_syncs # 0]

\* new = current + delta
NewFpIgnoreCurrent(current, delta) == delta
NewFp(current, delta) == current + delta

\* The loop of fpall over the rest of its member list, from the top of an
\* iteration to the next await (a frame) or the end of the list (Idle and
\* the summary).  A member whose sync returns without awaiting is finished
\* at once.
RECURSIVE FpallLoop(_, _, _, _, _, _)
FpallLoop(table, roles, groles, queue, delta, counts) ==
    IF queue = <<>>
    THEN [fp |-> table, frame |-> Idle, reply |-> FpallReply(counts)]
    ELSE LET member == Head(queue)
             new == NewFp(get_fp(table, member), delta)
             table2 == set_fp(table, member, new)
             sync == SyncBegin(roles[member], groles, new)
         IN  IF member \in Bots
             THEN FpallLoop(table, roles, groles, Tail(queue), delta,
                            [counts EXCEPT !.skipped_bots = @ + 1])
             ELSE IF ~CanBind(new)
             THEN FpallLoop(table, roles, groles, Tail(queue), delta, counts)
             ELSE IF sync.at = "false"
             THEN FpallLoop(table2, roles, groles, Tail(queue), delta,
                            [counts EXCEPT !.failed_syncs = @ + 1,
                                           !.updated = @ + 1])
             ELSE [fp |-> table2,
                   frame |-> Frame("fpall", member, new, sync, Tail(queue),
                                   delta, counts),
                   reply |-> reply]

\* The counters of fpall once the sync of a member has returned.
CountsAfterAlways(counts, existed) == [counts EXCEPT !.updated = @ + 1]
CountsAfter(counts, existed) ==
    [counts EXCEPT !.updated = @ + 1,
                   !.failed_syncs = IF existed THEN @ ELSE @ + 1]

\* The handler of frame f goes on after its sync returned `existed`.
Returned(f, existed, table, roles, groles) ==
    IF f.kind = "fpall"
    THEN FpallLoop(table, roles, groles, f.queue, f.delta,
                   CountsAfter(f.counts, existed))
    ELSE [fp |-> table, frame |-> Idle,
          reply |-> CommandReply(f.kind, f.member, f.new_fp, existed)]

\* The handler of frame f goes on after its sync raised an exception other
\* than discord.Forbidden: fpall catches it and continues with the next
\* member; the other commands end without a reply.
RaisedAbort(f, table, roles, groles) ==
    [fp |-> table, frame |-> Idle, reply |-> reply]
Raised(f, table, roles, groles) ==
    IF f.kind = "fpall"
    THEN FpallLoop(table, roles, groles, f.queue, f.delta, f.counts)
    ELSE [fp |-> table, frame |-> Idle, reply |-> reply]

\* A handler whose set_fp raised OverflowError ends there: no row written,
\* no sync, no reply.
Overflowed(table) == [fp |-> table, frame |-> Idle, reply |-> reply]

\* The handler of frame f goes on with its sync at s (a suspension or a
\* return).
Continue(f, s, table, roles, groles) ==
    IF s.at \in {"remove", "add"}
    THEN [fp |-> table,
          frame |-> [f EXCEPT !.at = s.at, !.to_remove = s.to_remove,
                              !.target = s.target],
          reply |-> reply]
    ELSE Returned(f, s.at = "true", table, roles, groles)

\* The outcomes of a call to the guild: done, refused (discord.Forbidden) or
\* failed with another exception (discord.NotFound for a member who left).
Outcomes == {"ok", "forbidden", "error"}
PossibleOutcome(member, outcome) ==
    outcome \in Outcomes /\ (member \notin members => outcome = "error")

\* The handler of task t has run to r: its next await, or its end.
Proceed(t, r) ==
    /\ user_fp' = r.fp
    /\ tasks' = [tasks EXCEPT ![t] = r.frame]
    /\ reply' = r.reply

\* A handler just invoked has run to r.
Start(r) ==
    /\ r.frame # Idle => IdleTasks # {}
    /\ user_fp' = r.fp
    /\ tasks' = IF r.frame = Idle THEN tasks
                ELSE [tasks EXCEPT ![FreeTask] = r.frame]
    /\ reply' = r.reply

\* await member.remove_roles(*roles_to_remove): one request per role, in
\* order; the first refusal or failure ends the call.
RemoveRole(t, outcome) ==
    LET f == tasks[t]
        role == Head(f.to_remove)
        roles2 == IF outcome = "ok"
                  THEN [member_roles EXCEPT ![f.member] = @ \ {role}]
                  ELSE member_roles
        sync == IF outcome = "ok" /\ Tail(f.to_remove) # <<>>
                THEN [at |-> "remove", to_remove |-> Tail(f.to_remove),
                      target |-> NoRole]
                ELSE SyncLookup(guild_roles, f.new_fp)
    IN  /\ f # Idle
        /\ f.at = "remove"
        /\ PossibleOutcome(f.member, outcome)
        /\ member_roles' = roles2
        /\ Proceed(t, IF outcome = "error"
                     THEN Raised(f, user_fp, roles2, guild_roles)
                     ELSE Continue(f, sync, user_fp, roles2, guild_roles))
        /\ UNCHANGED <<clockVars, gateVars, ctx, user_warnings, uw_new, boot,
                       members, guild_roles>>

\* await member.add_roles(target_role), then return True.
AddRole(t, outcome) ==
    LET f == tasks[t]
        roles2 == IF outcome = "ok"
                  THEN [member_roles EXCEPT ![f.member] = @ \cup {f.target}]
                  ELSE member_roles
    IN  /\ f # Idle
        /\ f.at = "add"
        /\ PossibleOutcome(f.member, outcome)
        /\ member_roles' = roles2
        /\ Proceed(t, IF outcome = "error"
                     THEN Raised(f, user_fp, roles2, guild_roles)
                     ELSE Returned(f, TRUE, user_fp, roles2, guild_roles))
        /\ UNCHANGED <<clockVars, gateVars, ctx, user_warnings, uw_new, boot,
                       members, guild_roles>>

(***************************************************************************)
(* FP commands.  `member` is the target the converter resolved (a member   *)
(* of the guild); the check runs before the arguments are converted.       *)
(***************************************************************************)
\* The members of the guild in the order fpall iterates over them.
RECURSIVE MemberList(_)
MemberList(set) ==
    IF set = {} THEN <<>>
    ELSE LET m == CHOOSE x \in set : \A y \in set : x <= y
         IN  <<m>> \o MemberList(set \ {m})

\* !fp @user +5
fp(author, has_perm, member, delta) ==
    IF Permitted(author, has_perm)
    THEN LET new == NewFp(get_fp(user_fp, member), delta)
             table == set_fp(user_fp, member, new)
             sync == SyncBegin(member_roles[member], guild_roles, new)
             f == Frame("fp", member, new, sync, <<>>, delta, NoCounts)
         IN  /\ Allowed("fp", author, has_perm, member)
             /\ CanBind(new) => Abs(new) <= MaxScore
             /\ Start(IF CanBind(new)
                      THEN Continue(f, sync, table, member_roles, guild_roles)
                      ELSE Overflowed(user_fp))
             /\ UNCHANGED <<clockVars, user_warnings, uw_new, boot, guildVars>>
    ELSE Denied("fp", author, has_perm, member)

\* !fpset @user 109
fpset(author, has_perm, member, value) ==
    IF Permitted(author, has_perm)
    THEN LET table == set_fp(user_fp, member, value)
             sync == SyncBegin(member_roles[member], guild_roles, value)
             f == Frame("fpset", member, value, sync, <<>>, 0, NoCounts)
         IN  /\ Allowed("fpset", author, has_perm, member)
             /\ Start(IF CanBind(value)
                      THEN Continue(f, sync, table, member_roles, guild_roles)
                      ELSE Overflowed(user_fp))
             /\ UNCHANGED <<clockVars, user_warnings, uw_new, boot, guildVars>>
    ELSE Denied("fpset", author, has_perm, member)

\* !fprolesync @user
fprolesync(author, has_perm, member) ==
    IF Permitted(author, has_perm)
    THEN LET value == get_fp(user_fp, member)
             sync == SyncBegin(member_roles[member], guild_roles, value)
             f == Frame("fprolesync", member, value, sync, <<>>, 0, NoCounts)
         IN  /\ Allowed("fprolesync", author, has_perm, member)
             /\ Start(Continue(f, sync, user_fp, member_roles, guild_roles))
             /\ UNCHANGED <<clockVars, user_warnings, uw_new, boot, guildVars>>
    ELSE Denied("fprolesync", author, has_perm, member)

\* !fpall +5
fpall(author, has_perm, delta) ==
    IF Permitted(author, has_perm)
    THEN /\ Allowed("fpall", author, has_perm, 0)
         /\ \A m \in members \ Bots :
                LET new == NewFp(get_fp(user_fp, m), delta)
                IN  CanBind(new) => Abs(new) <= MaxScore
         /\ Start(FpallLoop(user_fp, member_roles, guild_roles,
                            MemberList(members), delta, NoCounts))
         /\ UNCHANGED <<clockVars, user_warnings, uw_new, boot, guildVars>>
    ELSE Denied("fpall", author, has_perm, 0)

(***************************************************************************)
(* Warning commands.                                                       *)
(***************************************************************************)
DEFAULT_REASON == "Warning administered"
MIGRATED_REASON == "Migrated from legacy count"

\* if not reason: reason = "Warning administered"
ReasonOrDefaultKeep(reason) == reason
ReasonOrDefault(reason) == IF reason = "" THEN DEFAULT_REASON ELSE reason

\* !warn @user [reason]; reason "" stands for a reason left out.
warn(author, has_perm, member, reason) ==
    IF Permitted(author, has_perm)
    THEN LET a == add_warning(user_warnings, member, ReasonOrDefault(reason),
                              today)
         IN  /\ Allowed("warn", author, has_perm, member)
             /\ Len(user_warnings.rows) < MaxRows
             /\ user_warnings.seq < MaxSeq
             /\ IF a.ok /\ CanSelectWarning(a.table)
                THEN /\ user_warnings' = a.table
                     /\ reply' = [text |-> "warn", user |-> member,
                                  n |-> Len(get_all_warnings(a.table, member)),
                                  note |-> ReasonOrDefault(reason)
                                               # DEFAULT_REASON]
                ELSE \* sqlite3.OperationalError: the command ends there
                     /\ user_warnings' = IF a.ok THEN a.table ELSE user_warnings
                     /\ reply' = reply
             /\ UNCHANGED <<clockVars, user_fp, uw_new, boot, guildVars, tasks>>
    ELSE Denied("warn", author, has_perm, member)

\* !warnclear @user
warnclear(author, has_perm, member) ==
    IF Permitted(author, has_perm)
    THEN LET c == clear_warnings(user_warnings, member)
         IN  /\ Allowed("warnclear", author, has_perm, member)
             /\ user_warnings' = c.table
             /\ reply' = [text |-> "warnclear", user |-> member,
                          n |-> c.count, note |-> c.count = 0]
             /\ UNCHANGED <<clockVars, user_fp, uw_new, boot, guildVars, tasks>>
    ELSE Denied("warnclear", author, has_perm, member)

\* !warnsub @user
warnsub(author, has_perm, member) ==
    IF Permitted(author, has_perm)
    THEN LET d == remove_last_warning(user_warnings, member)
         IN  /\ Allowed("warnsub", author, has_perm, member)
             /\ user_warnings' = d.table
             /\ reply' = IF ~d.ok
                         THEN [text |-> "warnsub", user |-> member, n |-> 0,
                               note |-> TRUE]
                         ELSE IF CanSelectWarning(d.table)
                         THEN [text |-> "warnsub", user |-> member,
                               n |-> Len(get_all_warnings(d.table, member)),
                               note |-> FALSE]
                         ELSE reply
             /\ UNCHANGED <<clockVars, user_fp, uw_new, boot, guildVars, tasks>>
    ELSE Denied("warnsub", author, has_perm, member)

(***************************************************************************)
(* on_member_remove: the member has left the guild.                        *)
(***************************************************************************)
RemoveFpRowKeep(table, user_id) == table
RemoveFpRow(table, user_id) == delete_fp(table, user_id)

on_member_remove(member) ==
    /\ boot.pc = "ready"
    /\ member \in members
    /\ members' = members \ {member}
    /\ user_fp' = RemoveFpRow(user_fp, member)
    /\ user_warnings' = clear_warnings(user_warnings, member).table
    /\ UNCHANGED <<clockVars, gateVars, ctx, reply, uw_new, boot,
                   member_roles, guild_roles, tasks>>

(***************************************************************************)
(* Start-up: ensure_warning_schema(), then migrate_user_warnings_table().  *)
(* boot.pc is the statement about to run.  Python's sqlite3 opens a         *)
(* transaction before an INSERT and not before CREATE, DROP or ALTER: a     *)
(* statement run outside a transaction is committed at once, the others    *)
(* at con.commit().  boot.uw and boot.nw are user_warnings and _uw_new as   *)
(* the connection of the migration sees them.                               *)
(***************************************************************************)
BootAt(pc) ==
    [pc |-> pc, in_tx |-> FALSE, uw |-> NoTable, nw |-> NoTable,
     cursor |-> <<>>, day |-> 0]

MigrationSteps == {"create", "copy", "expand", "drop", "rename", "commit"}

\* ensure_warning_schema()
ensure_warning_schema ==
    /\ boot.pc = "ensure"
    /\ user_warnings' = CreateIfNotExists(user_warnings, MinimalCols)
    /\ boot' = BootAt("inspect")
    /\ UNCHANGED <<clockVars, gateVars, ctx, reply, user_fp, uw_new,
                   guildVars, tasks>>

\* if "warnings" not in cols: return
NeedsMigrationAlways(cols) == TRUE
NeedsMigration(cols) == "warnings" \in cols

\* PRAGMA table_info(user_warnings); the early return; today.
migrate_inspect ==
    /\ boot.pc = "inspect"
    /\ boot' = IF NeedsMigration(user_warnings.cols)
               THEN [BootAt("create") EXCEPT !.uw = user_warnings,
                                             !.nw = uw_new, !.day = today]
               ELSE BootAt("ready")
    /\ UNCHANGED <<clockVars, gateVars, ctx, reply, dbVars, guildVars, tasks>>

\* CREATE TABLE IF NOT EXISTS _uw_new(...), and the choice of the branch; in
\* the count-only branch the rows are fetched (cur2.fetchall()).
migrate_create ==
    /\ boot.pc = "create"
    /\ uw_new' = CreateIfNotExists(uw_new, CurrentCols)
    /\ boot' = IF {"reason", "date"} \subseteq boot.uw.cols
               THEN [boot EXCEPT !.pc = "copy", !.nw = uw_new']
               ELSE [boot EXCEPT !.pc = "expand", !.nw = uw_new',
                                 !.cursor = boot.uw.rows]
    /\ UNCHANGED <<clockVars, gateVars, ctx, reply, user_fp, user_warnings,
                   guildVars, tasks>>

\* COALESCE(reason, 'Warning administered'), COALESCE(date, ?)
CoalesceReason(reason) == IF reason = NullReason THEN DEFAULT_REASON ELSE reason
CoalesceDate(date, day) == IF date = NullDate THEN day ELSE date

RECURSIVE CopyRows(_, _, _)
CopyRows(table, rows, day) ==
    IF rows = <<>> THEN table
    ELSE CopyRows(InsertRow(table, Head(rows).user_id,
                            CoalesceReason(Head(rows).reason),
                            CoalesceDate(Head(rows).date, day)),
                  Tail(rows), day)

\* The mixed schema: INSERT INTO _uw_new ... SELECT ... FROM user_warnings.
migrate_copy ==
    /\ boot.pc = "copy"
    /\ boot' = [boot EXCEPT !.pc = "drop", !.in_tx = TRUE,
                            !.nw = CopyRows(boot.nw, boot.uw.rows, boot.day)]
    /\ UNCHANGED <<clockVars, gateVars, ctx, reply, dbVars, guildVars, tasks>>

\* count = int(count or 0); for _ in range(count)
RowsToInsertRaw(count) == count
RowsToInsert(count) == IF count > 0 THEN count ELSE 0

migrate_expand_once ==
    /\ boot.pc = "expand"
    /\ boot' =
         IF boot.cursor = <<>> THEN [boot EXCEPT !.pc = "drop"]
         ELSE LET row == Head(boot.cursor)
              IN  IF RowsToInsert(row.warnings) = 0
                  THEN [boot EXCEPT !.cursor = Tail(@)]
                  ELSE [boot EXCEPT
                          !.in_tx = TRUE,
                          !.nw = InsertRow(@, row.user_id, MIGRATED_REASON,
                                           boot.day),
                          !.cursor = Tail(@)]
    /\ UNCHANGED <<clockVars, gateVars, ctx, reply, dbVars, guildVars, tasks>>

\* The count-only schema: one INSERT a step; a row whose count is used up
\* (or is 0) is passed over, and the loop ends with the rows.
migrate_expand ==
    /\ boot.pc = "expand"
    /\ boot' =
         IF boot.cursor = <<>> THEN [boot EXCEPT !.pc = "drop"]
         ELSE LET row == Head(boot.cursor)
              IN  IF RowsToInsert(row.warnings) = 0
                  THEN [boot EXCEPT !.cursor = Tail(@)]
                  ELSE [boot EXCEPT
                          !.in_tx = TRUE,
                          !.nw = InsertRow(@, row.user_id, MIGRATED_REASON,
                                           boot.day),
                          !.cursor = <<[row EXCEPT !.warnings = @ - 1]>>
                                         \o Tail(@)]
    /\ UNCHANGED <<clockVars, gateVars, ctx, reply, dbVars, guildVars, tasks>>

\* Whether a statement that is not an INSERT is committed as it runs.
AutocommitsNever(in_tx) == FALSE
Autocommits(in_tx) == ~in_tx

\* DROP TABLE user_warnings
migrate_drop ==
    /\ boot.pc = "drop"
    /\ boot' = [boot EXCEPT !.pc = "rename", !.uw = NoTable]
    /\ user_warnings' = IF Autocommits(boot.in_tx) THEN NoTable
                        ELSE user_warnings
    /\ UNCHANGED <<clockVars, gateVars, ctx, reply, user_fp, uw_new,
                   guildVars, tasks>>

\* ALTER TABLE _uw_new RENAME TO user_warnings
migrate_rename ==
    /\ boot.pc = "rename"
    /\ boot' = [boot EXCEPT !.pc = "commit", !.uw = boot.nw, !.nw = NoTable]
    /\ user_warnings' = IF Autocommits(boot.in_tx) THEN boot.nw
                        ELSE user_warnings
    /\ uw_new' = IF Autocommits(boot.in_tx) THEN NoTable ELSE uw_new
    /\ UNCHANGED <<clockVars, gateVars, ctx, reply, user_fp, guildVars, tasks>>

\* con.commit(); con.close()
migrate_commit ==
    /\ boot.pc = "commit"
    /\ user_warnings' = boot.uw
    /\ uw_new' = boot.nw
    /\ boot' = [BootAt("ready") EXCEPT !.day = boot.day]
    /\ UNCHANGED <<clockVars, gateVars, ctx, reply, user_fp, guildVars, tasks>>

\* The process dies inside the migration (a crash, or an exception that
\* ends the import of the module): what was not committed is rolled back.
Crash ==
    /\ boot.pc \in MigrationSteps
    /\ boot' = BootAt("down")
    /\ UNCHANGED <<clockVars, gateVars, ctx, reply, dbVars, guildVars, tasks>>

\* The process is started (again): its memory is new, fp.sqlite is kept.
Restart ==
    /\ boot.pc \in {"down", "ready"}
    /\ boot' = BootAt("ensure")
    /\ unauth_attempts' = [u \in Users |-> <<0, 0>>]
    /\ tasks' = [t \in TaskIds |-> Idle]
    /\ UNCHANGED <<clockVars, ctx, reply, dbVars, guildVars>>

(***************************************************************************)
(* Initial states.                                                         *)
(***************************************************************************)
EmptyWarnings == CreateIfNotExists(NoTable, CurrentCols)
NoContext ==
    [command |-> "", author |-> 0, has_perm |-> FALSE, member |-> 0,
     msg_id |-> 0]

\* The bot is up on a database in the current shape; nothing is stored yet.
InitRunning ==
    /\ now = StartTime
    /\ today = 1
    /\ unauth_attempts = [u \in Users |-> <<0, 0>>]
    /\ ctx = NoContext
    /\ reply = NoReply
    /\ user_fp = [u \in {} |-> 0]
    /\ user_warnings = EmptyWarnings
    /\ uw_new = NoTable
    /\ boot = BootAt("ready")
    /\ members = Users
    /\ tasks = [t \in TaskIds |-> Idle]
    /\ gate_log = <<>>
    /\ legacy = NoTable
    /\ pending = [u \in Users |-> 0]
    /\ roles_before = [u \in Users |-> {}]
    /\ applied = [u \in Users |-> <<>>]

\* A step that is the dispatch of an invocation.
IsInvocation == ctx'.msg_id # ctx.msg_id

(***************************************************************************)
(* SpecGate: the permission gate under every order of invocations and of   *)
(* clock readings.  The commands invoked are two whose bodies leave the    *)
(* tables as they are here (no role matches, no warning is stored).        *)
(***************************************************************************)
GateAuthors == {1, 2}

\* History: every decision of the gate, with the time it was taken at.
LogGate ==
    /\ IsInvocation => Len(gate_log) < MaxLog
    /\ gate_log' = IF IsInvocation
                   THEN Append(gate_log, [user |-> ctx'.author, t |-> now,
                                          allowed |-> ctx'.has_perm,
                                          msg |-> IF ctx'.has_perm THEN ""
                                                  ELSE reply'.text])
                   ELSE gate_log
    /\ UNCHANGED <<legacy, pending, roles_before, applied>>

InitGate ==
    /\ InitRunning
    /\ member_roles = [u \in Users |-> {}]
    /\ guild_roles = {ROLE_MODERATOR}

NextGate ==
    \/ \E d \in TickSteps : Tick(d) /\ LogGate
    \/ \E a \in GateAuthors, p \in BOOLEAN : fprolesync(a, p, 1) /\ LogGate
    \/ \E a \in GateAuthors, p \in BOOLEAN : warnclear(a, p, 2) /\ LogGate

SpecGate == InitGate /\ [][NextGate]_vars

\* The entry of the log before entry i that is of the same user (0: none).
PrevOf(log, i) ==
    LET before == {j \in 1 .. i - 1 : log[j].user = log[i].user}
    IN  IF before = {} THEN 0
        ELSE CHOOSE j \in before : \A k \in before : k <= j

\* The number of the unauthorized attempt log[i] since the counter of its
\* user last restarted.
RECURSIVE AttemptNumber(_, _)
AttemptNumber(log, i) ==
    LET j == PrevOf(log, i)
    IN  IF j = 0 THEN 1
        ELSE IF log[j].allowed THEN 1
        ELSE IF log[i].t - log[j].t > WINDOW_SECONDS THEN 1
        ELSE AttemptNumber(log, j) + 1

\* C1: an unauthorized invocation gets the default reply when it is the 1st
\* or 2nd unauthorized attempt since its user's counter last restarted and the
\* escalated reply when it is the 3rd or a later one; the counter restarts
\* when more than 60 seconds have passed since the user's previous
\* unauthorized attempt or when the user made an authorized invocation in
\* between.
C1_GateMessageSequence ==
    \A i \in 1 .. Len(gate_log) :
        ~gate_log[i].allowed =>
            gate_log[i].msg = IF AttemptNumber(gate_log, i) >= 3
                              THEN MSG_ESCALATED ELSE MSG_DEFAULT

\* C1 witness: a user is escalated on a third attempt, restarts after a gap
\* of more than a window and is back at the default reply.
C1_Witness ==
    \E i, j \in 1 .. Len(gate_log) :
        /\ i < j
        /\ gate_log[i].user = gate_log[j].user
        /\ gate_log[i].msg = MSG_ESCALATED
        /\ gate_log[j].msg = MSG_DEFAULT
        /\ PrevOf(gate_log, j) = i
        /\ gate_log[j].t - gate_log[i].t > WINDOW_SECONDS

(***************************************************************************)
(* SpecCommands: the seven gated commands, invoked with and without        *)
(* permission, with their role syncs in flight.                            *)
(***************************************************************************)
NoHistory == UNCHANGED histVars

InitCommands ==
    /\ InitRunning
    /\ member_roles = [u \in Users |->
                          IF u = 2 THEN {ROLE_MODERATOR, RoleName(0)} ELSE {}]
    /\ guild_roles = {ROLE_MODERATOR, RoleName(0), RoleName(1)}

\* A permitted invocation is dispatched here while no handler is in flight.
Quiet == \A t \in TaskIds : tasks[t] = Idle
OneAtATime(has_perm) == has_perm => Quiet

NextCommands ==
    \/ \E p \in BOOLEAN : fp(1, p, 2, 1) /\ OneAtATime(p) /\ NoHistory
    \/ \E p \in BOOLEAN : fpset(1, p, 2, 0) /\ OneAtATime(p) /\ NoHistory
    \/ \E p \in BOOLEAN : fprolesync(1, p, 2) /\ OneAtATime(p) /\ NoHistory
    \/ \E p \in BOOLEAN : fpall(1, p, 1) /\ OneAtATime(p) /\ NoHistory
    \/ \E p \in BOOLEAN : warn(1, p, 2, "") /\ OneAtATime(p) /\ NoHistory
    \/ \E p \in BOOLEAN : warnclear(1, p, 2) /\ OneAtATime(p) /\ NoHistory
    \/ \E p \in BOOLEAN : warnsub(1, p, 2) /\ OneAtATime(p) /\ NoHistory
    \/ \E t \in TaskIds : RemoveRole(t, "ok") /\ NoHistory
    \/ \E t \in TaskIds : AddRole(t, "ok") /\ NoHistory

SpecCommands == InitCommands /\ [][NextCommands]_vars

\* C2: an invocation of a gated command by a caller without the permission
\* never runs the command body: the score table, the warnings table and every
\* user's label set are the same after the invocation as before it (and no
\* handler is left in flight), whatever the caller's attempt count is.
C2_DeniedRunsNothing ==
    [][(IsInvocation /\ ctx'.command \in GatedCommands /\ ~ctx'.has_perm)
          => UNCHANGED <<user_fp, user_warnings, member_roles, tasks>>]_vars

\* C2 witness: a denied fp, past the escalation threshold, with a score and
\* a warning stored and a sync of an earlier, permitted command in flight.
C2_Witness ==
    /\ ctx.command = "fp"
    /\ ~ctx.has_perm
    /\ reply.text = MSG_ESCALATED
    /\ unauth_attempts[ctx.author][1] > MAX_ATTEMPTS
    /\ DOMAIN user_fp # {}
    /\ user_warnings.rows # <<>>
    /\ \E t \in TaskIds : tasks[t] # Idle

(***************************************************************************)
(* SpecAdjust: fp commands and fpall batches on the same users, interleaved *)
(* at the awaits of their role syncs, every external call free to succeed,  *)
(* be refused or fail.                                                      *)
(***************************************************************************)
AdjustDeltas == {1, 2}

\* History: pending[u] is the score u had at the start plus the deltas of
\* the adjustments invoked for u since.
TrackDeltas(author, has_perm, targets, delta) ==
    /\ pending' = IF Permitted(author, has_perm)
                  THEN [u \in Users |-> IF u \in targets
                                        THEN pending[u] + delta
                                        ELSE pending[u]]
                  ELSE pending
    /\ UNCHANGED <<gate_log, legacy, roles_before, applied>>
KeepHistory == UNCHANGED histVars

InitAdjust ==
    /\ now = StartTime
    /\ today = 1
    /\ unauth_attempts = [u \in Users |-> <<0, 0>>]
    /\ ctx = NoContext
    /\ reply = NoReply
    /\ user_fp \in {[u \in {} |-> 0], [u \in {1} |-> 1]}
    /\ user_warnings = EmptyWarnings
    /\ uw_new = NoTable
    /\ boot = BootAt("ready")
    /\ members = Users
    /\ tasks = [t \in TaskIds |-> Idle]
    /\ gate_log = <<>>
    /\ legacy = NoTable
    /\ pending = [u \in Users |-> get_fp(user_fp, u)]
    /\ roles_before = [u \in Users |-> {}]
    /\ applied = [u \in Users |-> <<>>]
    /\ member_roles = [u \in Users |-> IF u = 1 THEN {RoleName(1)} ELSE {}]
    /\ guild_roles = {RoleName(0), RoleName(1)}

NextAdjust ==
    \/ \E m \in {1, 2}, d \in AdjustDeltas :
          fp(1, TRUE, m, d) /\ TrackDeltas(1, TRUE, {m}, d)
    \/ fpall(1, TRUE, 1) /\ TrackDeltas(1, TRUE, members \ Bots, 1)
    \/ \E t \in TaskIds, o \in {"ok", "error"} :
          RemoveRole(t, o) /\ KeepHistory
    \/ \E t \in TaskIds, o \in {"ok", "error"} :
          AddRole(t, o) /\ KeepHistory

SpecAdjust == InitAdjust /\ [][NextAdjust]_vars

\* The deltas that the fpall batches in flight have still to apply to u.
InQueue(f, u) == \E i \in 1 .. Len(f.queue) : f.queue[i] = u
TaskOwes(t, u) ==
    IF tasks[t] # Idle /\ tasks[t].kind = "fpall" /\ InQueue(tasks[t], u)
       /\ u \notin Bots
    THEN tasks[t].delta ELSE 0
RECURSIVE SumOwed(_, _)
SumOwed(ts, u) ==
    IF ts = {} THEN 0
    ELSE LET t == CHOOSE x \in ts : TRUE
         IN  TaskOwes(t, u) + SumOwed(ts \ {t}, u)
StillToApply(u) == SumOwed(TaskIds, u)

\* C3: when several fp commands and fpall batches that target the same user
\* interleave at their await points, the score finally stored for the user is
\* the score before them plus the sum of all their deltas (and until then it
\* differs from that sum by the deltas the batches have still to apply).
C3_NoLostUpdate ==
    /\ Quiet => \A u \in Users : get_fp(user_fp, u) = pending[u]
    /\ \A u \in Users : get_fp(user_fp, u) + StillToApply(u) = pending[u]

\* C3 witness: all is done after a batch and a command adjusted the same user
\* while both were in flight (the batch replied last, the command ran while
\* the batch was suspended on a user before it).
C3_Witness ==
    /\ Quiet
    /\ reply.text = "fpall"
    /\ ctx.command = "fp"
    /\ ctx.member = 2
    /\ pending[2] = 2

(***************************************************************************)
(* SpecStartup: the start-up sequence from every kind of stored            *)
(* user_warnings table, interrupted at any statement of the migration and  *)
(* started again; once the bot is up, warnings are issued.                 *)
(***************************************************************************)
LegacyUsers == {1, 2}

\* The sequences over a set of rows, of length at most n.
RECURSIVE SeqsUpTo(_, _)
SeqsUpTo(set, n) ==
    IF n = 0 THEN {<<>>}
    ELSE LET shorter == SeqsUpTo(set, n - 1)
         IN  shorter \cup {Append(q, x) : q \in shorter, x \in set}

TableOf(cols, rows) ==
    [exists |-> TRUE, cols |-> cols, rows |-> rows, seq |-> MaxId(rows)]

\* The oldest shape: (user_id, warnings).
CountOnlyTables ==
    {TableOf({"user_id", "warnings"}, rows) :
        rows \in SeqsUpTo([user_id : LegacyUsers,
                           warnings : 0 .. MaxLegacyCount], MaxLegacyRows)}

\* The mixed shape: a warnings column beside reason and date, which may be
\* NULL.
MixedRows(n) ==
    {rows \in SeqsUpTo([id : {0}, user_id : LegacyUsers, warnings : {1},
                        reason : {NullReason, "spam"},
                        date : {NullDate, 1}], n) : TRUE}
Renumber(rows) == [i \in 1 .. Len(rows) |-> [rows[i] EXCEPT !.id = i]]
MixedTables ==
    {TableOf({"id", "user_id", "warnings", "reason", "date"}, Renumber(rows)) :
        rows \in MixedRows(MaxLegacyRows)}

\* The current shape, as add_warning creates it, with a warning or none.
CurrentTables ==
    {EmptyWarnings, InsertRow(EmptyWarnings, 1, "spam", 1)}

InitialWarningTables ==
    {NoTable} \cup CurrentTables \cup MixedTables \cup CountOnlyTables

InitStartup ==
    /\ now = StartTime
    /\ today = 1
    /\ unauth_attempts = [u \in Users |-> <<0, 0>>]
    /\ ctx = NoContext
    /\ reply = NoReply
    /\ user_fp = [u \in {} |-> 0]
    /\ user_warnings \in InitialWarningTables
    /\ uw_new = NoTable
    /\ boot = BootAt("ensure")
    /\ members = Users
    /\ member_roles = [u \in Users |-> {}]
    /\ guild_roles = {}
    /\ tasks = [t \in TaskIds |-> Idle]
    /\ gate_log = <<>>
    /\ legacy = user_warnings
    /\ pending = [u \in Users |-> 0]
    /\ roles_before = [u \in Users |-> {}]
    /\ applied = [u \in Users |-> <<>>]

NextStartup ==
    \/ ensure_warning_schema /\ KeepHistory
    \/ migrate_inspect /\ KeepHistory
    \/ migrate_create /\ KeepHistory
    \/ migrate_copy /\ KeepHistory
    \/ migrate_expand /\ KeepHistory
    \/ migrate_drop /\ KeepHistory
    \/ migrate_rename /\ KeepHistory
    \/ migrate_commit /\ KeepHistory
    \/ Crash /\ KeepHistory
    \/ Restart /\ KeepHistory
    \/ NextDay /\ KeepHistory
    \/ \E r \in {"", "spam"} : warn(1, TRUE, 2, r) /\ KeepHistory

SpecStartup == InitStartup /\ [][NextStartup]_vars

IsCountOnly(table) ==
    table.exists /\ "warnings" \in table.cols
                 /\ ~({"reason", "date"} \subseteq table.cols)
IsMixed(table) ==
    table.exists /\ "warnings" \in table.cols
                 /\ {"reason", "date"} \subseteq table.cols

\* C4 (as claimed): once start-up is over, user_warnings has the columns
\* (id, user_id, reason, date), a following add_warning succeeds and
\* list_warnings returns its record last.
C4_StartupLeavesCurrentShape ==
    boot.pc = "ready" =>
        /\ user_warnings.exists
        /\ user_warnings.cols = CurrentCols
        /\ LET a == add_warning(user_warnings, 1, "spam", today)
               listed == get_all_warnings(a.table, 1)
           IN  /\ a.ok
               /\ listed # <<>>
               /\ listed[Len(listed)] = <<"spam", today>>

\* C5 (as claimed): after an interruption of the migration the storage still
\* has the original legacy table, with all its rows, as user_warnings; and a
\* restart then completes the migration, so that a bot that is up never runs
\* on a table that is not in the current shape.
C5_MigrationCrashAtomic ==
    /\ boot.pc = "down" => user_warnings = legacy
    /\ (boot.pc = "ready" /\ NeedsMigration(legacy.cols)) =>
           user_warnings.cols = CurrentCols

\* The sum of the counts of the legacy rows of user u.
RECURSIVE CountSum(_, _)
CountSum(rows, u) ==
    IF rows = <<>> THEN 0
    ELSE (IF Head(rows).user_id = u THEN Head(rows).warnings ELSE 0)
             + CountSum(Tail(rows), u)

\* C6: the commit of a count-only migration leaves, for every legacy row
\* (user, count), count records for that user, each with the migrated reason
\* and the date of the run, and no other record; and a start-up on a table
\* without a warnings column (the migrated table among them) changes neither
\* table and ends at the early return.
C6_CountOnlyMigration ==
    [][/\ (boot.pc = "commit" /\ boot'.pc = "ready" /\ IsCountOnly(legacy)) =>
            /\ user_warnings'.cols = CurrentCols
            /\ \A u \in Users :
                   Len(WarningRowsOf(user_warnings', u))
                       = CountSum(legacy.rows, u)
            /\ \A i \in 1 .. Len(user_warnings'.rows) :
                   /\ user_warnings'.rows[i].reason = MIGRATED_REASON
                   /\ user_warnings'.rows[i].date = boot.day
                   /\ user_warnings'.rows[i].user_id \in Users
       /\ (boot.pc \in {"ensure", "inspect"} /\ user_warnings.exists
              /\ "warnings" \notin user_warnings.cols) =>
            /\ user_warnings' = user_warnings
            /\ uw_new' = uw_new
            /\ boot'.pc \in {boot.pc, "inspect", "ready"}]_vars

\* C6 witness: a count-only table with two rows of one user and a row with
\* count 0 ... was migrated (3 records for user 1), and a later start-up ran
\* over the migrated table.
C6_Witness ==
    /\ IsCountOnly(legacy)
    /\ CountSum(legacy.rows, 1) = 3
    /\ boot.pc = "ready"
    /\ boot.day = 0
    /\ Len(WarningRowsOf(user_warnings, 1)) = 3
    /\ user_warnings.cols = CurrentCols

(***************************************************************************)
(* SpecSync: role syncs of one member, one after the other, no call to the *)
(* guild refused; the member starts with one of several role sets.         *)
(***************************************************************************)
SyncValues == {-1, 0, 2, 12}
SyncMember == 1

InitialRoleSets ==
    {{},
     {ROLE_MODERATOR, RoleName(1)},
     {ROLE_MODERATOR, ROLE_7FP, ROLE_2fp, RoleName(2)},
     {RoleName(-1), RoleName(12), RoleName(3)}}

\* History: the roles the member held when the sync began.
TrackRoles(member) ==
    /\ roles_before' = [roles_before EXCEPT ![member] = member_roles[member]]
    /\ UNCHANGED <<gate_log, legacy, pending, applied>>

InitSync ==
    /\ InitRunning
    /\ member_roles \in {[u \in Users |-> IF u = SyncMember THEN held ELSE {}] :
                            held \in InitialRoleSets}
    /\ guild_roles = AllRoles \ {RoleName(0)}

NextSync ==
    \/ \E v \in SyncValues :
          fpset(2, TRUE, SyncMember, v) /\ Quiet /\ TrackRoles(SyncMember)
    \/ fprolesync(2, TRUE, SyncMember) /\ Quiet /\ TrackRoles(SyncMember)
    \/ \E t \in TaskIds : RemoveRole(t, "ok") /\ KeepHistory
    \/ \E t \in TaskIds : AddRole(t, "ok") /\ KeepHistory

SpecSync == InitSync /\ [][NextSync]_vars

\* The naming convention of score labels, as the spec's examples and the
\* pattern have it: one or more digits, white space or none, "FP" in any case.
IsScoreLabel(name) ==
    \E d \in 1 .. Len(name) - 2 :
        /\ \A i \in 1 .. d : name[i] \in DigitSet
        /\ \A i \in d + 1 .. Len(name) - 2 : name[i] = " "
        /\ name[Len(name) - 1] \in {"F", "f"}
        /\ name[Len(name)] \in {"P", "p"}

\* The label names of the scores synced here, written out.
LabelOf(score) ==
    CASE score = -1 -> <<"-", "1", " ", "F", "P">>
      [] score = 0 -> <<"0", " ", "F", "P">>
      [] score = 1 -> <<"1", " ", "F", "P">>
      [] score = 2 -> <<"2", " ", "F", "P">>
      [] score = 3 -> <<"3", " ", "F", "P">>
      [] score = 12 -> <<"1", "2", " ", "F", "P">>

\* C7: when sync(u, s) completes, no call refused and the label named for s
\* in the guild, u holds the label for s, u holds no other label that matches
\* the score-label naming convention, and every label of u that does not
\* match the convention is held exactly as before.
C7_SyncReconciles ==
    [][\A t \in TaskIds :
          (tasks[t] # Idle /\ tasks'[t] = Idle /\ tasks[t].at = "add") =>
              LET u == tasks[t].member
                  label == LabelOf(tasks[t].new_fp)
              IN  /\ label \in guild_roles
                  /\ label \in member_roles'[u]
                  /\ \A r \in member_roles'[u] :
                         IsScoreLabel(r) => r = label
                  /\ \A r \in AllRoles :
                         (~IsScoreLabel(r) /\ r # label) =>
                             (r \in member_roles'[u] <=> r \in roles_before[u])
                  /\ ~reply'.note]_vars

\* C7 witness: a sync to 12 has completed for a member who held "Mod", "7FP",
\* "2 fp" and "2 FP": "12 FP" and "Mod" are held and nothing else.
C7_Witness ==
    /\ Quiet
    /\ reply = CommandReply("fpset", SyncMember, 12, TRUE)
    /\ roles_before[SyncMember]
           = {ROLE_MODERATOR, ROLE_7FP, ROLE_2fp, RoleName(2)}
    /\ member_roles[SyncMember] = {ROLE_MODERATOR, RoleName(12)}

(***************************************************************************)
(* SpecDepart: members leave while fp commands and fpall batches are in    *)
(* flight.                                                                 *)
(***************************************************************************)
InitDepart ==
    /\ InitRunning
    /\ member_roles = [u \in Users |-> {}]
    /\ guild_roles = {RoleName(1), RoleName(2)}

NextDepart ==
    \/ fp(1, TRUE, 2, 1) /\ KeepHistory
    \/ fpall(1, TRUE, 1) /\ KeepHistory
    \/ warn(1, TRUE, 2, "") /\ KeepHistory
    \/ \E m \in {2, 3} : on_member_remove(m) /\ KeepHistory
    \/ \E t \in TaskIds, o \in {"ok", "error"} :
          RemoveRole(t, o) /\ KeepHistory
    \/ \E t \in TaskIds, o \in {"ok", "error"} :
          AddRole(t, o) /\ KeepHistory

SpecDepart == InitDepart /\ [][NextDepart]_vars

\* C8 (as claimed): once on_member_remove has run for u, u has no score row
\* and no warning rows, in every later state: no command can name u as its
\* target once u is gone, and a batch in flight is no such command.
C8_DeparturePurges ==
    \A u \in Users \ members :
        /\ u \notin DOMAIN user_fp
        /\ WarningRowsOf(user_warnings, u) = <<>>

(***************************************************************************)
(* SpecLedger: fp and fpset, one command after the other (the guild has no *)
(* roles, so no sync awaits), from users without a row.  The arguments are *)
(* small integers and the first integers past each end of the INTEGER      *)
(* range.                                                                  *)
(***************************************************************************)
LedgerValues == (-1 .. MaxScore) \cup {SQLITE_MIN - 1, SQLITE_MAX + 1}

\* History: the score commands run for the member.
TrackApplied(member, op) ==
    /\ Len(applied[member]) < MaxOps
    /\ applied' = [applied EXCEPT ![member] = Append(@, op)]
    /\ UNCHANGED <<gate_log, legacy, pending, roles_before>>

InitLedger ==
    /\ InitRunning
    /\ member_roles = [u \in Users |-> {}]
    /\ guild_roles = {}

NextLedger ==
    \/ \E m \in {1, 2}, d \in LedgerValues :
          fp(1, TRUE, m, d) /\ TrackApplied(m, <<"fp", d>>)
    \/ \E m \in {1, 2}, v \in LedgerValues :
          fpset(1, TRUE, m, v) /\ TrackApplied(m, <<"fpset", v>>)

SpecLedger == InitLedger /\ [][NextLedger]_vars

\* C9 (as claimed): for a user without a score record, get_score is 0; for
\* all integers a and b, delta a and then delta b leave the stored score
\* that set_score(u, a + b) leaves, and get_score returns a + b in both
\* cases.
C9_DeltaComposition ==
    \A u \in Users :
        LET ops == applied[u]
            none == [x \in DOMAIN user_fp \ {u} |-> user_fp[x]]
        IN  /\ ops = <<>> => (u \notin DOMAIN user_fp /\ get_fp(user_fp, u) = 0)
            /\ (Len(ops) = 1 /\ ops[1][1] = "fpset") =>
                   (u \in DOMAIN user_fp /\ user_fp[u] = ops[1][2]
                      /\ get_fp(user_fp, u) = ops[1][2])
            /\ (Len(ops) = 2 /\ ops[1][1] = "fp" /\ ops[2][1] = "fp") =>
                   /\ u \in DOMAIN user_fp
                   /\ user_fp[u] = ops[1][2] + ops[2][2]
                   /\ get_fp(user_fp, u) = ops[1][2] + ops[2][2]
                   /\ user_fp = set_fp(none, u, ops[1][2] + ops[2][2])

(***************************************************************************)
(* SpecWarn: warnings issued and taken back for two users, on several days, *)
(* from an empty table and from one whose dates run against its ids.        *)
(***************************************************************************)
OutOfDateOrder ==
    InsertRow(InsertRow(InsertRow(EmptyWarnings, 1, "first", 2),
                        2, "other", 2),
              1, "last", 1)

InitWarn ==
    /\ now = StartTime
    /\ today = 1
    /\ unauth_attempts = [u \in Users |-> <<0, 0>>]
    /\ ctx = NoContext
    /\ reply = NoReply
    /\ user_fp = [u \in {} |-> 0]
    /\ user_warnings \in {EmptyWarnings, OutOfDateOrder}
    /\ uw_new = NoTable
    /\ boot = BootAt("ready")
    /\ members = Users
    /\ member_roles = [u \in Users |-> {}]
    /\ guild_roles = {}
    /\ tasks = [t \in TaskIds |-> Idle]
    /\ gate_log = <<>>
    /\ legacy = NoTable
    /\ pending = [u \in Users |-> 0]
    /\ roles_before = [u \in Users |-> {}]
    /\ applied = [u \in Users |-> <<>>]

NextWarn ==
    \/ \E m \in {1, 2}, r \in {"", "spam"} : warn(1, TRUE, m, r) /\ KeepHistory
    \/ \E m \in {1, 2} : warnsub(1, TRUE, m) /\ KeepHistory
    \/ \E m \in {1, 2} : warnclear(1, TRUE, m) /\ KeepHistory
    \/ NextDay /\ KeepHistory

SpecWarn == InitWarn /\ [][NextWarn]_vars

\* C10: remove_last_warning on a user whose warnings in insertion order are
\* [w1, ..., wn], n >= 1, returns true and leaves [w1, ..., w(n-1)], whatever
\* the dates and whatever other users' records lie in between (these are
\* left alone); on a user with no warnings it returns false and deletes
\* nothing.
C10_RemoveLastWarning ==
    [][(IsInvocation /\ ctx'.command = "warnsub") =>
          LET u == ctx'.member
              before == WarningRowsOf(user_warnings, u)
              after == WarningRowsOf(user_warnings', u)
          IN  /\ before # <<>> =>
                     /\ after = SubSeq(before, 1, Len(before) - 1)
                     /\ ~reply'.note
                     /\ reply'.n = Len(before) - 1
              /\ before = <<>> =>
                     /\ user_warnings' = user_warnings
                     /\ reply'.note
              /\ \A v \in Users \ {u} :
                     WarningRowsOf(user_warnings', v)
                         = WarningRowsOf(user_warnings, v)
              /\ Len(user_warnings'.rows) = Len(user_warnings.rows)
                                             - (IF before = <<>> THEN 0 ELSE 1)]_vars

\* C10 witness: the last of two warnings of user 1 was removed, the record
\* of user 2 inserted between them is kept, and the warning left is dated
\* after the one removed.
C10_Witness ==
    /\ ctx.command = "warnsub"
    /\ ctx.member = 1
    /\ reply = [text |-> "warnsub", user |-> 1, n |-> 1, note |-> FALSE]
    /\ Len(WarningRowsOf(user_warnings, 2)) = 1
    /\ get_all_warnings(user_warnings, 1) = <<<<"first", 2>>>>

\* C11: clear_warnings(u) returns exactly the number of warning records u
\* had, leaves u with none and every other user's records as they were; a
\* second clear_warnings(u) directly afterwards returns 0.
C11_ClearWarnings ==
    [][(IsInvocation /\ ctx'.command = "warnclear") =>
          LET u == ctx'.member
          IN  /\ reply'.text = "warnclear"
              /\ reply'.n = Len(WarningRowsOf(user_warnings, u))
              /\ WarningRowsOf(user_warnings', u) = <<>>
              /\ \A v \in Users \ {u} :
                     WarningRowsOf(user_warnings', v)
                         = WarningRowsOf(user_warnings, v)
              /\ Len(user_warnings'.rows)
                     = Len(user_warnings.rows) - reply'.n
              /\ (ctx.command = "warnclear" /\ ctx.member = u) =>
                     reply'.n = 0]_vars

\* C11 witness: the two warnings of user 1 were cleared and reported, and
\* the warning of user 2 is still there.
C11_Witness ==
    /\ ctx.command = "warnclear"
    /\ ctx.member = 1
    /\ reply = [text |-> "warnclear", user |-> 1, n |-> 2, note |-> FALSE]
    /\ WarningRowsOf(user_warnings, 1) = <<>>
    /\ Len(WarningRowsOf(user_warnings, 2)) = 1

\* The reasons a caller passes to warn; "" is a reason left out.
WarnReasons == {"", "spam"}

\* C12 (as claimed): issuing a warning to a user with no warnings and then
\* listing that user's warnings returns exactly one record, with the reason
\* supplied and the current UTC date; with no reason supplied the stored
\* reason is the canned default.
C12_WarnThenList ==
    [][\A m \in Users, r \in WarnReasons :
          (warn(1, TRUE, m, r) /\ WarningRowsOf(user_warnings, m) = <<>>) =>
              /\ CanSelectWarning(user_warnings')
              /\ get_all_warnings(user_warnings', m)
                     = << <<IF r = "" THEN "Warning administered" ELSE r,
                            today>> >>]_vars

(***************************************************************************)
(* SpecRefuse: the score commands of one member, one after the other, with *)
(* every call to the guild done, refused or failed.                        *)
(***************************************************************************)
InitRefuse == InitSync

NextRefuse ==
    \/ fp(2, TRUE, SyncMember, 1) /\ Quiet /\ TrackRoles(SyncMember)
    \/ \E v \in SyncValues :
          fpset(2, TRUE, SyncMember, v) /\ Quiet /\ TrackRoles(SyncMember)
    \/ fprolesync(2, TRUE, SyncMember) /\ Quiet /\ TrackRoles(SyncMember)
    \/ \E t \in TaskIds, o \in Outcomes : RemoveRole(t, o) /\ KeepHistory
    \/ \E t \in TaskIds, o \in Outcomes : AddRole(t, o) /\ KeepHistory

SpecRefuse == InitRefuse /\ [][NextRefuse]_vars

\* C13: sync(u, s) returns true exactly when a label named for s exists in
\* the guild, whether or not a removal or the attachment was refused; when it
\* returns false the score the command wrote stays s.
C13_SyncReturnValue ==
    [][/\ \A t \in TaskIds, o \in {"ok", "forbidden"} :
              ((RemoveRole(t, o) \/ AddRole(t, o)) /\ tasks'[t] = Idle) =>
                  LET f == tasks[t]
                      existed == LabelOf(f.new_fp) \in guild_roles
                  IN  /\ reply' = [text |-> f.kind, user |-> f.member,
                                   n |-> f.new_fp, note |-> ~existed]
                      /\ ~existed => get_fp(user_fp', f.member) = f.new_fp
       /\ (/\ IsInvocation
           /\ ctx'.command \in {"fp", "fpset", "fprolesync"}
           /\ tasks' = tasks) =>
              /\ reply'.text = ctx'.command
              /\ reply'.note
              /\ LabelOf(reply'.n) \notin guild_roles
              /\ get_fp(user_fp', ctx'.member) = reply'.n
       /\ \A t \in TaskIds :
              (tasks'[t] # Idle /\ tasks'[t].at = "add") =>
                  LabelOf(tasks'[t].new_fp) \in guild_roles]_vars

\* C13 witness: the sync of fpset to 12 returned true although the member
\* does not hold "12 FP": the attachment was refused.
C13_Witness ==
    /\ Quiet
    /\ reply = [text |-> "fpset", user |-> SyncMember, n |-> 12,
                note |-> FALSE]
    /\ LabelOf(12) \in guild_roles
    /\ LabelOf(12) \notin member_roles[SyncMember]
    /\ user_fp[SyncMember] = 12

(***************************************************************************)
(* SpecBatch: fpall batches over two members and a bot, with every call to *)
(* the guild done, refused or failed, and with a member whose score is at  *)
(* the end of the INTEGER range, so that the ledger write fails.           *)
(***************************************************************************)
InitialScores ==
    {[u \in {} |-> 0],
     [u \in {1} |-> SQLITE_MAX],
     [u \in {2, 3} |-> IF u = 2 THEN SQLITE_MAX ELSE 2]}

InitBatch ==
    /\ now = StartTime
    /\ today = 1
    /\ unauth_attempts = [u \in Users |-> <<0, 0>>]
    /\ ctx = NoContext
    /\ reply = NoReply
    /\ user_fp \in InitialScores
    /\ user_warnings = EmptyWarnings
    /\ uw_new = NoTable
    /\ boot = BootAt("ready")
    /\ members = Users
    /\ tasks = [t \in TaskIds |-> Idle]
    /\ gate_log = <<>>
    /\ legacy = NoTable
    /\ pending = [u \in Users |-> get_fp(user_fp, u)]
    /\ roles_before = [u \in Users |-> {}]
    /\ applied = [u \in Users |-> <<>>]
    /\ member_roles = [u \in Users |-> IF u = 1 THEN {RoleName(1)} ELSE {}]
    /\ guild_roles = {RoleName(1)}

NextBatch ==
    \/ fpall(1, TRUE, 1) /\ TrackDeltas(1, TRUE, members \ Bots, 1)
    \/ \E t \in TaskIds, o \in Outcomes : RemoveRole(t, o) /\ KeepHistory
    \/ \E t \in TaskIds, o \in Outcomes : AddRole(t, o) /\ KeepHistory

SpecBatch == InitBatch /\ [][NextBatch]_vars

\* The ledger write of every batch fails for u: u is at the end of the range.
WriteFails(u) == get_fp(user_fp, u) = SQLITE_MAX /\ pending[u] > SQLITE_MAX

\* C14: a failure while fpall processes one member (in the ledger write or in
\* the role sync) does not abort the batch: every other non-bot member of
\* the member list has the delta applied exactly once, and the scores of
\* bots are unchanged.
C14_BatchIsolatesFailures ==
    \A u \in Users :
        \/ get_fp(user_fp, u) + StillToApply(u) = pending[u]
        \/ u \notin Bots /\ WriteFails(u)

\* C14 witness: a batch has ended that counted one member only; the sync of
\* member 1 failed, and member 2 after it has the delta and the role.
C14_Witness ==
    /\ Quiet
    /\ reply = [text |-> "fpall", user |-> 0, n |-> 1, note |-> FALSE]
    /\ user_fp = [u \in {1, 2} |-> 1]
    /\ RoleName(1) \in member_roles[2]

\* One batch was invoked from the scores `before`.
OneBatchFrom(before) ==
    \A u \in Users :
        pending[u] = get_fp(before, u) + (IF u \in Bots THEN 0 ELSE 1)

\* The members whose stored score differs from the one in `before`.
ChangedSince(before) ==
    {u \in DOMAIN user_fp : u \notin DOMAIN before \/ user_fp[u] # before[u]}

\* C19 (as claimed): the number of members that fpall reports as updated is
\* the number of members whose stored score the batch changed, also when the
\* role sync of a member raises after the score of the member was written.
C19_ReportedCountExact ==
    \A before \in InitialScores :
        (Quiet /\ reply.text = "fpall" /\ OneBatchFrom(before)) =>
            reply.n = Cardinality(ChangedSince(before))

(***************************************************************************)
(* fptop: SELECT user_id, fp FROM user_fp ORDER BY fp DESC, user_id ASC    *)
(* LIMIT 5.  The command is not gated.                                     *)
(***************************************************************************)
TOP_LIMIT == 5

\* The row that ORDER BY fp DESC, user_id ASC puts first among those of us.
FirstRowIdDesc(table, us) ==
    CHOOSE u \in us : \A v \in us :
        table[u] > table[v] \/ (table[u] = table[v] /\ u >= v)
FirstRow(table, us) ==
    CHOOSE u \in us : \A v \in us :
        table[u] > table[v] \/ (table[u] = table[v] /\ u <= v)

RECURSIVE OrderByFp(_, _)
OrderByFp(table, us) ==
    IF us = {} THEN <<>>
    ELSE LET u == FirstRow(table, us)
         IN  <<[user_id |-> u, fp |-> table[u]]>>
                 \o OrderByFp(table, us \ {u})

top_rows(table) ==
    LET all == OrderByFp(table, DOMAIN table)
    IN  SubSeq(all, 1, IF Len(all) < TOP_LIMIT THEN Len(all) ELSE TOP_LIMIT)

\* !fptop: the reply lists the rows; without rows "No FP data found."
fptop(author) ==
    /\ boot.pc = "ready"
    /\ author \in members \ Bots
    /\ ctx' = Context("fptop", author, FALSE, 0)
    /\ reply' = [text |-> "fptop", user |-> 0, n |-> Len(top_rows(user_fp)),
                 note |-> top_rows(user_fp) = <<>>,
                 rows |-> top_rows(user_fp)]
    /\ UNCHANGED <<clockVars, unauth_attempts, dbVars, boot, guildVars, tasks>>

(***************************************************************************)
(* SpecTop: fptop on score tables of up to NTopUsers rows.                 *)
(***************************************************************************)
TopUsers == 1 .. NTopUsers
ScoreTables ==
    UNION {[us -> 0 .. MaxTopScore] : us \in SUBSET TopUsers}

InitTop ==
    /\ now = StartTime
    /\ today = 1
    /\ unauth_attempts = [u \in Users |-> <<0, 0>>]
    /\ ctx = NoContext
    /\ reply = NoReply
    /\ user_fp \in ScoreTables
    /\ user_warnings = EmptyWarnings
    /\ uw_new = NoTable
    /\ boot = BootAt("ready")
    /\ members = Users
    /\ member_roles = [u \in Users |-> {}]
    /\ guild_roles = {}
    /\ tasks = [t \in TaskIds |-> Idle]
    /\ gate_log = <<>>
    /\ legacy = NoTable
    /\ pending = [u \in Users |-> 0]
    /\ roles_before = [u \in Users |-> {}]
    /\ applied = [u \in Users |-> <<>>]

NextTop ==
    \/ \E a \in {1, 2} : fptop(a) /\ KeepHistory

SpecTop == InitTop /\ [][NextTop]_vars

\* Row a ranks before row b: score descending, user id ascending on ties.
RanksBefore(ua, fa, ub, fb) == fa > fb \/ (fa = fb /\ ua < ub)

\* C15: the listing has min(5, number of users with a score record) entries,
\* ordered by score descending with ties broken by user id ascending, and
\* every user left out ranks after every user listed.
C15_TopScores ==
    reply.text = "fptop" =>
        LET rows == reply.rows
            n == Cardinality(DOMAIN user_fp)
            listed == {rows[i].user_id : i \in 1 .. Len(rows)}
        IN  /\ Len(rows) = IF n < 5 THEN n ELSE 5
            /\ \A i \in 1 .. Len(rows) :
                   /\ rows[i].user_id \in DOMAIN user_fp
                   /\ rows[i].fp = user_fp[rows[i].user_id]
            /\ \A i \in 1 .. Len(rows) - 1 :
                   RanksBefore(rows[i].user_id, rows[i].fp,
                               rows[i + 1].user_id, rows[i + 1].fp)
            /\ \A u \in DOMAIN user_fp \ listed : \A i \in 1 .. Len(rows) :
                   RanksBefore(rows[i].user_id, rows[i].fp, u, user_fp[u])

\* C15 witness: six users have a score, five are listed, ties among them, and
\* the user left out has the lowest score and, at that score, the highest id.
C15_Witness ==
    /\ reply.text = "fptop"
    /\ user_fp = [u \in TopUsers |-> IF u \in {2, 4} THEN 1 ELSE 0]
    /\ Len(reply.rows) = 5
    /\ reply.rows[1].user_id = 2
    /\ reply.rows[3].user_id = 1
    /\ \A i \in 1 .. 5 : reply.rows[i].user_id # NTopUsers

(***************************************************************************)
(* SpecRace: score commands of one member that may be invoked while the    *)
(* sync of an earlier one is suspended; no call to the guild is refused.   *)
(***************************************************************************)
InitRace == InitSync

NextRace ==
    \/ \E v \in SyncValues : fpset(2, TRUE, SyncMember, v) /\ KeepHistory
    \/ fprolesync(2, TRUE, SyncMember) /\ KeepHistory
    \/ \E t \in TaskIds : RemoveRole(t, "ok") /\ KeepHistory
    \/ \E t \in TaskIds : AddRole(t, "ok") /\ KeepHistory

SpecRace == InitRace /\ [][NextRace]_vars

\* C16 (as claimed): when role syncs of the same user interleave at their
\* awaits and no call is refused, then once all have completed the user
\* holds at most one score-derived label, and the label of the score stored
\* in the ledger, if the guild has it, is the one held.
C16_ConcurrentSyncsConverge ==
    (Quiet /\ ctx.command \in {"fpset", "fprolesync"}) =>
        LET held == {r \in member_roles[SyncMember] : IsScoreLabel(r)}
            label == LabelOf(get_fp(user_fp, SyncMember))
        IN  /\ Cardinality(held) <= 1
            /\ label \in guild_roles => label \in member_roles[SyncMember]

\* The scores whose label names LabelOf writes out.
LabelScores == {-1, 0, 1, 2, 3, 12}

\* C17 (as claimed): for every integer score s, negative ones included, the
\* label name that sync computes for s is classified as score-derived by the
\* matcher; hence after sync(u, t) with no refused call, u holds no label
\* named for a score other than t, also when u held the label of a negative
\* score before.
C17_EveryScoreLabelRecognized ==
    (Quiet /\ ctx.command \in {"fpset", "fprolesync"}) =>
        \A s \in LabelScores :
            /\ LabelOf(s) \in roles_before[SyncMember] =>
                   RoleName(s) = LabelOf(s) /\ is_fp_role(RoleName(s))
            /\ s # reply.n => LabelOf(s) \notin member_roles[SyncMember]

\* The unauthorized attempts of the user of log[i] up to log[i] that lie in
\* the window [log[i].t - 60, log[i].t] with no authorized invocation of the
\* user between them and log[i].
AttemptsInWindow(log, i) ==
    {j \in 1 .. i :
        /\ log[j].user = log[i].user
        /\ ~log[j].allowed
        /\ log[j].t >= log[i].t - 60
        /\ \A k \in j .. i : log[k].user = log[i].user => ~log[k].allowed}

\* C18 (as claimed): whenever the gate emits the escalated message to a user
\* at time t, the user has made at least 3 unauthorized attempts, this one
\* included, within [t - 60, t], with no authorized invocation of the user
\* among them.
C18_EscalatedOnlyInWindow ==
    \A i \in 1 .. Len(gate_log) :
        gate_log[i].msg = MSG_ESCALATED =>
            Cardinality(AttemptsInWindow(gate_log, i)) >= 3

\* C20 (as claimed): when the member holds several score-derived labels and
\* the guild refuses the removal of one of them, sync still removes every
\* other matched label whose removal is not refused (it goes on to the
\* removals that are left), still attempts to attach the target label, and
\* reports no failure to its caller.
C20_RefusedRemovalContinues ==
    [][\A t \in TaskIds :
          RemoveRole(t, "forbidden") =>
              LET f == tasks[t]
                  rest == Tail(f.to_remove)
              IN  /\ rest # <<>> =>
                         /\ tasks'[t] # Idle
                         /\ tasks'[t].at = "remove"
                         /\ tasks'[t].to_remove = rest
                  /\ (rest = <<>> /\ LabelOf(f.new_fp) \in guild_roles) =>
                         /\ tasks'[t] # Idle
                         /\ tasks'[t].at = "add"
                  /\ (rest = <<>> /\ LabelOf(f.new_fp) \notin guild_roles) =>
                         reply' = [text |-> f.kind, user |-> f.member,
                                   n |-> f.new_fp, note |-> TRUE]]_vars

=============================================================================
